---- MODULE Spec2Model ----
(***************************************************************************)
(* Model of src/src/ticktick_mcp/tools/task_tools.py: the TaskObject       *)
(* record, its merge, and the task tools that resolve identities through   *)
(* client.get_by_id before issuing one mutating remote call.               *)
(*                                                                         *)
(* Every tool is one sequential handler, so every tool is one action that  *)
(* runs the whole handler.  The remote service is the environment: what    *)
(* client.get_by_id answers for each id, and whether a remote call         *)
(* returns or raises, are inputs of the action.  The state records the     *)
(* invocation: its arguments, the lookups it made, the mutating remote     *)
(* calls it issued, the handler's locals and the envelope returned.  The   *)
(* module keeps no state between invocations (every handler fetches the    *)
(* client and starts from fresh locals), so a behaviour is one invocation  *)
(* from the idle state.                                                    *)
(***************************************************************************)
EXTENDS Integers, Sequences, FiniteSets, TLC

VARIABLES op, args, lookups, calls, locals, result

vars == <<op, args, lookups, calls, locals, result>>

\* longest id list handed to ticktick_delete_tasks
MaxIds == 3

\* how many times one record is serialized
MaxDumps == 3

(***************************************************************************)
(* Values.  An Optional[...] value is a sequence of length at most one:    *)
(* None is the empty sequence and a present value v is <<v>>.  A dict is a *)
(* function from its keys to such values.                                  *)
(***************************************************************************)
Null == <<>>

Some(v) == <<v>>

\* dict.get(k): the value under k, None when the key is absent
Get(d, k) == IF k \in DOMAIN d THEN d[k] ELSE Null

\* truth value of an optional string: None and "" are falsy
TruthyStr(x) == x # Null /\ x[1] # ""

EmptyDict == [k \in {} |-> Null]

Ids == {"A", "B", "C"}

ProjectIds == {"P1", "P2"}

\* an argument that is not a str
NotAString == "<not-a-str>"

IsStr(x) == x # NotAString

\* exceptions a remote call can raise
Faults == {"ConnectionError", "Exception"}

(***************************************************************************)
(* What client.get_by_id(id) can answer: None, an empty dict, an object    *)
(* that is not a dict, a dict stored under that id (a task carries         *)
(* projectId and title, other kinds of object lack one or both), or a      *)
(* raised exception.                                                       *)
(***************************************************************************)
None == [tag |-> "None", d |-> EmptyDict]

NotADict == [tag |-> "other", d |-> EmptyDict]

Raised(e) == [tag |-> e, d |-> EmptyDict]

DictObj(d) == [tag |-> "dict", d |-> d]

MkDict(id, p, t) ==
    [k \in {"id"} \cup (IF p = Null THEN {} ELSE {"projectId"})
                  \cup (IF t = Null THEN {} ELSE {"title"}) |->
        CASE k = "id" -> Some(id)
          [] k = "projectId" -> p
          [] k = "title" -> t]

StoredDicts(id) ==
    {MkDict(id, p, t) : p \in {Null} \cup {Some(q) : q \in ProjectIds},
                        t \in {Null, Some("T")}}

Answers(id) ==
    {None, DictObj(EmptyDict), NotADict}
        \cup {DictObj(d) : d \in StoredDicts(id)}
        \cup {Raised(e) : e \in Faults}

\* the client's state as one invocation sees it: an answer for every id
\* the invocation looks up
StoresOn(S) == {s \in [S -> UNION {Answers(i) : i \in S}] :
                   \A i \in S : s[i] \in Answers(i)}

Range(s) == {s[i] : i \in DOMAIN s}

IsFault(obj) == obj.tag \in Faults

\* Python truth value of a looked-up object
Truthy(obj) ==
    \/ obj.tag = "other"
    \/ obj.tag = "dict" /\ DOMAIN obj.d # {}

IsDict(obj) == obj.tag = "dict"

SeqOf(S, n) == UNION {[1..k -> S] : k \in 0..n}

(***************************************************************************)
(* ticktick_delete_tasks                                                   *)
(***************************************************************************)
\* task_ids is a str or a list of str
DeleteArgs ==
    {[isList |-> FALSE, ids |-> <<i>>] : i \in Ids}
        \cup {[isList |-> TRUE, ids |-> s] : s \in SeqOf(Ids, MaxIds)}

\* ids_to_process = task_ids if isinstance(task_ids, list) else [task_ids]
IdsToProcess(task_ids) == task_ids.ids

ClassifyMissingIfFalsy(obj) ==
    IF Truthy(obj) /\ IsDict(obj) /\ TruthyStr(Get(obj.d, "projectId"))
                   /\ Get(obj.d, "title") # Null
    THEN "valid"
    ELSE IF ~Truthy(obj) THEN "missing" ELSE "invalid"

ClassifyNoTitleCheck(obj) ==
    IF Truthy(obj) /\ IsDict(obj) /\ TruthyStr(Get(obj.d, "projectId"))
    THEN "valid"
    ELSE IF obj.tag = "None" THEN "missing" ELSE "invalid"

\* the branch taken for one looked-up object
Classify(obj) ==
    IF Truthy(obj) /\ IsDict(obj) /\ TruthyStr(Get(obj.d, "projectId"))
                   /\ Get(obj.d, "title") # Null
    THEN "valid"
    ELSE IF obj.tag = "None" THEN "missing" ELSE "invalid"

\* the test that admits an object to tasks_to_delete
LooksLikeTask(obj) == Classify(obj) = "valid"

DeleteLocals0 ==
    [tasks_to_delete |-> <<>>, missing_ids |-> <<>>, invalid_ids |-> <<>>,
     lookups |-> <<>>, raised |-> ""]

\* the for loop over ids_to_process; it stops where get_by_id raises
RECURSIVE ResolveLoop(_, _, _)
ResolveLoop(ids, store, st) ==
    IF ids = <<>> THEN st
    ELSE LET tid == Head(ids)
             obj == store[tid]
             st1 == [st EXCEPT !.lookups = Append(@, [id |-> tid, res |-> obj])]
         IN  IF IsFault(obj) THEN [st1 EXCEPT !.raised = obj.tag]
             ELSE IF LooksLikeTask(obj)
             THEN ResolveLoop(Tail(ids), store,
                      [st1 EXCEPT !.tasks_to_delete = Append(@, obj.d)])
             ELSE IF Classify(obj) = "missing"
             THEN ResolveLoop(Tail(ids), store,
                      [st1 EXCEPT !.missing_ids = Append(@, tid)])
             ELSE ResolveLoop(Tail(ids), store,
                      [st1 EXCEPT !.invalid_ids = Append(@, tid)])

WarningMessageMissingOnly(missing_ids, invalid_ids) ==
    IF missing_ids \o invalid_ids # <<>>
    THEN <<[text |-> "Could not find objects for IDs",
            ids |-> missing_ids \o invalid_ids]>>
    ELSE <<>>

\* warning_message, as the parts appended to it
WarningMessage(missing_ids, invalid_ids) ==
    (IF missing_ids # <<>>
     THEN <<[text |-> "Could not find objects for IDs", ids |-> missing_ids]>>
     ELSE <<>>)
    \o (IF invalid_ids # <<>>
        THEN <<[text |-> "Found objects for IDs but they were not valid tasks",
                ids |-> invalid_ids]>>
        ELSE <<>>)

NoValidTasksResponseWithoutLists(ids_to_process, missing_ids, invalid_ids) ==
    IF ids_to_process = <<>>
    THEN [message |-> "No task IDs provided.", status |-> "error"]
    ELSE [message |-> "No valid tasks found for the provided ID(s) to delete.",
          status |-> "not_found"]

\* the envelope returned when tasks_to_delete is empty
NoValidTasksResponse(ids_to_process, missing_ids, invalid_ids) ==
    IF ids_to_process = <<>>
    THEN [message |-> "No task IDs provided.", status |-> "error"]
    ELSE [message |-> "No valid tasks found for the provided ID(s) to delete.",
          status |-> "not_found",
          missing_ids |-> missing_ids,
          invalid_ids |-> invalid_ids]

DeleteInputScalarWhenOne(task_ids, tasks_to_delete) ==
    IF Len(tasks_to_delete) = 1
    THEN [shape |-> "scalar", recs |-> <<tasks_to_delete[1]>>]
    ELSE [shape |-> "list", recs |-> tasks_to_delete]

\* delete_input = tasks_to_delete[0] if input_is_single else tasks_to_delete
DeleteInput(task_ids, tasks_to_delete) ==
    IF ~task_ids.isList
    THEN [shape |-> "scalar", recs |-> <<tasks_to_delete[1]>>]
    ELSE [shape |-> "list", recs |-> tasks_to_delete]

TasksDeletedIdsFromInput(ids_to_process, tasks_to_delete) == ids_to_process

\* [t['id'] for t in tasks_to_delete]
TasksDeletedIds(ids_to_process, tasks_to_delete) ==
    [i \in 1..Len(tasks_to_delete) |-> tasks_to_delete[i]["id"][1]]

\* response_data of a delete that returned
DeleteSuccessResponse(ids_to_process, tasks_to_delete, deleted_result, warning_message) ==
    LET response_data ==
            [status |-> "success",
             deleted_count |-> Len(tasks_to_delete),
             api_response |-> deleted_result,
             tasks_deleted_ids |-> TasksDeletedIds(ids_to_process, tasks_to_delete)]
    IN  IF warning_message # <<>>
        THEN [k \in DOMAIN response_data \cup {"warnings"} |->
                 IF k = "warnings" THEN warning_message ELSE response_data[k]]
        ELSE response_data

\* the two except clauses of ticktick_delete_tasks
DeleteErrorResponse(e) ==
    IF e = "ConnectionError"
    THEN [error |-> "ConnectionError", status |-> "error"]
    ELSE [error |-> "Failed to delete tasks", status |-> "error"]

\* what a mutating remote call does: returns a value or raises
Outcomes == {"ok"} \cup Faults

IssueWithRetry(call) ==
    IF call.outcome \in Faults THEN <<call, call>> ELSE <<call>>

\* the one statement of a handler that calls the mutating remote method:
\* it runs once, whether the method returns or raises
Issue(call) == <<call>>

ticktick_delete_tasks ==
    /\ op = "none"
    /\ \E task_ids \in DeleteArgs, outcome \in Outcomes :
       \E store \in StoresOn(Range(task_ids.ids)) :
        LET ids_to_process == IdsToProcess(task_ids)
            st == ResolveLoop(ids_to_process, store, DeleteLocals0)
            warning_message == WarningMessage(st.missing_ids, st.invalid_ids)
            loc == [tasks_to_delete |-> st.tasks_to_delete,
                    missing_ids |-> st.missing_ids,
                    invalid_ids |-> st.invalid_ids]
        IN  /\ op' = "ticktick_delete_tasks"
            /\ args' = task_ids
            /\ lookups' = st.lookups
            /\ locals' = loc
            /\ IF st.raised # ""
               THEN /\ calls' = <<>>
                    /\ result' = DeleteErrorResponse(st.raised)
               ELSE IF st.tasks_to_delete = <<>>
               THEN /\ calls' = <<>>
                    /\ result' = NoValidTasksResponse(ids_to_process,
                                     st.missing_ids, st.invalid_ids)
               ELSE /\ calls' = Issue([name |-> "delete",
                                         arg |-> DeleteInput(task_ids, st.tasks_to_delete),
                                         outcome |-> outcome,
                                         at |-> Len(st.lookups)])
                    /\ result' =
                          IF outcome \in Faults
                          THEN DeleteErrorResponse(outcome)
                          ELSE DeleteSuccessResponse(ids_to_process,
                                   st.tasks_to_delete, outcome, warning_message)

(***************************************************************************)
(* ticktick_move_task                                                      *)
(***************************************************************************)
\* what get_by_id answers for the destination project id
TargetAnswers(pid) ==
    {None, DictObj(MkDict(pid, Null, Null))} \cup {Raised(e) : e \in Faults}

\* task_obj.get raises AttributeError unless task_obj is a dict
HasGet(obj) == IsDict(obj)

\* not task_obj.get('projectId')
MoveRejects(task_obj) == ~TruthyStr(Get(task_obj.d, "projectId"))

NotFoundResponse == [error |-> "not found or invalid", status |-> "not_found"]

\* the except clause of the tools that report no status
FailedResponse(e) == [error |-> "Failed", exception |-> e]

\* format_response of a value the remote service returned
ValueResponse(v) == [value |-> v]

ticktick_move_task ==
    /\ op = "none"
    /\ \E task_id \in Ids, new_project_id \in ProjectIds, outcome \in Outcomes :
       \E task_obj \in Answers(task_id), target_proj \in TargetAnswers(new_project_id) :
        LET first == <<[id |-> task_id, res |-> task_obj]>>
            both == Append(first, [id |-> new_project_id, res |-> target_proj])
        IN  /\ op' = "ticktick_move_task"
            /\ args' = [task_id |-> task_id, new_project_id |-> new_project_id]
            /\ locals' = <<>>
            /\ IF IsFault(task_obj)
               THEN /\ lookups' = first
                    /\ calls' = <<>>
                    /\ result' = FailedResponse(task_obj.tag)
               ELSE IF ~HasGet(task_obj)
               THEN /\ lookups' = first
                    /\ calls' = <<>>
                    /\ result' = FailedResponse("AttributeError")
               ELSE IF MoveRejects(task_obj)
               THEN /\ lookups' = first
                    /\ calls' = <<>>
                    /\ result' = NotFoundResponse
               ELSE IF IsFault(target_proj)
               THEN /\ lookups' = both
                    /\ calls' = <<>>
                    /\ result' = FailedResponse(target_proj.tag)
               ELSE /\ lookups' = both
                    /\ calls' = Issue([name |-> "move",
                                         arg |-> [shape |-> "scalar", recs |-> <<task_obj.d>>,
                                                  to |-> new_project_id],
                                         outcome |-> outcome,
                                         at |-> Len(both)])
                    /\ result' = IF outcome \in Faults
                                 THEN FailedResponse(outcome)
                                 ELSE ValueResponse("moved_task")

(***************************************************************************)
(* ticktick_make_subtask                                                   *)
(***************************************************************************)
SameIdsNever(child_task_id, parent_task_id) == FALSE

\* child_task_id == parent_task_id
SameIds(child_task_id, parent_task_id) == child_task_id = parent_task_id

\* not obj or not isinstance(obj, dict) or not obj.get('projectId')
NotFoundOrInvalid(obj) ==
    \/ ~Truthy(obj)
    \/ ~IsDict(obj)
    \/ ~TruthyStr(Get(obj.d, "projectId"))

DifferentProjectsNever(child_task_obj, parent_task_obj) == FALSE

\* child_task_obj.get('projectId') != parent_task_obj.get('projectId')
DifferentProjects(child_task_obj, parent_task_obj) ==
    Get(child_task_obj.d, "projectId") # Get(parent_task_obj.d, "projectId")

ProjectMismatchResponseWithoutParent(child_task_obj, parent_task_obj) ==
    [error |-> "Tasks must be in the same project to create a subtask relationship.",
     child_project |-> Get(child_task_obj.d, "projectId")]

\* the envelope returned when the projects differ
ProjectMismatchResponse(child_task_obj, parent_task_obj) ==
    [error |-> "Tasks must be in the same project to create a subtask relationship.",
     child_project |-> Get(child_task_obj.d, "projectId"),
     parent_project |-> Get(parent_task_obj.d, "projectId")]

SubtaskArgs == (Ids \cup {NotAString}) \X (Ids \cup {NotAString})

ticktick_make_subtask ==
    /\ op = "none"
    /\ \E a \in SubtaskArgs, outcome \in Outcomes :
       \E store \in StoresOn({a[1], a[2]} \cap Ids) :
       \E updated_parent_task_obj \in Answers(IF IsStr(a[1]) THEN a[1] ELSE "A") :
        LET parent_task_id == a[1]
            child_task_id == a[2]
            child_task_obj == store[child_task_id]
            parent_task_obj == store[parent_task_id]
            first == <<[id |-> child_task_id, res |-> child_task_obj]>>
            both == Append(first, [id |-> parent_task_id, res |-> parent_task_obj])
            call(o) == [name |-> "make_subtask",
                        arg |-> [shape |-> "scalar", recs |-> <<child_task_obj.d>>,
                                 to |-> parent_task_id],
                        outcome |-> o,
                        at |-> Len(both)]
        IN  /\ op' = "ticktick_make_subtask"
            /\ args' = [parent_task_id |-> parent_task_id,
                        child_task_id |-> child_task_id]
            /\ locals' = <<>>
            /\ IF ~IsStr(child_task_id) \/ ~IsStr(parent_task_id)
               THEN /\ lookups' = <<>>
                    /\ calls' = <<>>
                    /\ result' = [error |-> "Invalid input: child_task_id and parent_task_id must be strings."]
               ELSE IF SameIds(child_task_id, parent_task_id)
               THEN /\ lookups' = <<>>
                    /\ calls' = <<>>
                    /\ result' = [error |-> "Child and parent task IDs cannot be the same."]
               ELSE IF IsFault(child_task_obj)
               THEN /\ lookups' = first
                    /\ calls' = <<>>
                    /\ result' = FailedResponse(child_task_obj.tag)
               ELSE IF NotFoundOrInvalid(child_task_obj)
               THEN /\ lookups' = first
                    /\ calls' = <<>>
                    /\ result' = NotFoundResponse
               ELSE IF IsFault(parent_task_obj)
               THEN /\ lookups' = both
                    /\ calls' = <<>>
                    /\ result' = FailedResponse(parent_task_obj.tag)
               ELSE IF NotFoundOrInvalid(parent_task_obj)
               THEN /\ lookups' = both
                    /\ calls' = <<>>
                    /\ result' = NotFoundResponse
               ELSE IF DifferentProjects(child_task_obj, parent_task_obj)
               THEN /\ lookups' = both
                    /\ calls' = <<>>
                    /\ result' = ProjectMismatchResponse(child_task_obj, parent_task_obj)
               ELSE IF outcome \in Faults
               THEN /\ lookups' = both
                    /\ calls' = Issue(call(outcome))
                    /\ result' = FailedResponse(outcome)
               ELSE /\ lookups' = Append(both, [id |-> parent_task_id,
                                                res |-> updated_parent_task_obj])
                    /\ calls' = Issue(call(outcome))
                    /\ result' =
                          IF IsFault(updated_parent_task_obj)
                          THEN FailedResponse(updated_parent_task_obj.tag)
                          ELSE [message |-> "successfully made a subtask",
                                status |-> "success",
                                updated_parent_task |-> updated_parent_task_obj,
                                api_response |-> outcome]

(***************************************************************************)
(* TaskObject.  The model keeps one field of every kind the class has:     *)
(* plain optional scalars (title, content, id, projectId, status; desc,    *)
(* isAllDay, repeatFlag, sortOrder and etag behave as content does), the   *)
(* two dates that have a serializer (startDate, dueDate), timeZone, which  *)
(* that serializer assigns, priority, the one field whose default is not   *)
(* None, and a list (tags; reminders and items behave as tags does).       *)
(* Fields is in the order the class declares them, which is the order      *)
(* model_dump serializes them in.                                          *)
(***************************************************************************)
Fields == <<"title", "content", "startDate", "dueDate", "timeZone",
            "priority", "id", "projectId", "status", "tags">>

FieldSet == Range(Fields)

DateFields == {"startDate", "dueDate"}

\* the default a field takes when the caller's structure has no such key
Default(f) == IF f = "priority" THEN Some(0) ELSE Null

\* get_localzone().key
LocalZone == "Local/Zone"

\* convert_date_to_tick_tick_format(value, timeZone): the wire value of an
\* instant is determined by the instant and the zone it is rendered in
Wire(value, timeZone) == [date |-> value, tz |-> timeZone]

\* validation of the caller's structure into a TaskObject
TaskObject(req) ==
    [f \in FieldSet |-> IF f \in DOMAIN req THEN req[f] ELSE Default(f)]

AfterSerializeAlwaysLocal(self) ==
    IF self["startDate"] # Null \/ self["dueDate"] # Null
    THEN [self EXCEPT !["timeZone"] = Some(LocalZone)]
    ELSE self

\* the record after serialize_datetime has run for startDate and dueDate:
\* it assigns timeZone when a date is set and timeZone is None
AfterSerialize(self) ==
    IF (self["startDate"] # Null \/ self["dueDate"] # Null)
       /\ self["timeZone"] = Null
    THEN [self EXCEPT !["timeZone"] = Some(LocalZone)]
    ELSE self

\* serialize_datetime(self, value), self.timeZone already assigned
serialize_datetime(self, value) ==
    IF value = Null THEN Null
    ELSE Some(Wire(value[1], self["timeZone"][1]))

model_dump_include_none(self) ==
    LET after == AfterSerialize(self)
    IN  [f \in FieldSet |->
            IF f \in DateFields
            THEN serialize_datetime(after, after[f])
            ELSE after[f]]

\* task_object.model_dump(exclude_none=True, mode='json'); timeZone is
\* declared after the dates, so it is dumped after their serializer ran
model_dump(self) ==
    LET after == AfterSerialize(self)
    IN  [f \in {g \in FieldSet : after[g] # Null} |->
            IF f \in DateFields
            THEN serialize_datetime(after, after[f])
            ELSE after[f]]

updateAppendLists(self, src) ==
    [f \in DOMAIN self |->
        IF src[f] # Null
        THEN IF f = "tags" /\ self[f] # Null
             THEN Some(self[f][1] \o src[f][1])
             ELSE src[f]
        ELSE self[f]]

\* TaskObject.update(self, src): self after the loop over its fields
update(self, src) ==
    [f \in DOMAIN self |-> IF src[f] # Null THEN src[f] ELSE self[f]]

\* dict.update: task_obj.update(updates)
DictUpdate(base, updates) ==
    [k \in DOMAIN base \cup DOMAIN updates |->
        IF k \in DOMAIN updates THEN updates[k] ELSE base[k]]

\* marks a key the caller's structure does not have
Omitted == <<0, 0>>

MkRequest(full) ==
    [f \in {g \in DOMAIN full : full[g] # Omitted} |-> full[f]]

\* the structures a caller hands to ticktick_update_task (the id is given)
Requests ==
    {MkRequest([title |-> t, content |-> c, startDate |-> sd, dueDate |-> dd,
                timeZone |-> tz, priority |-> pr, id |-> Some("A"),
                projectId |-> pj, status |-> Omitted, tags |-> tg]) :
        t \in {Omitted, Null, Some("T2")},
        c \in {Omitted, Some("C2")},
        sd \in {Omitted, Some("D2")},
        dd \in {Omitted, Some("D3")},
        tz \in {Omitted, Some("Asia/Seoul")},
        pr \in {Omitted, Null, Some(0), Some(2), Some(5)},
        pj \in {Omitted, Some("P1")},
        tg \in {Omitted, Some(<<"new">>)}}

\* a task as the remote service stores it: every key of a task, and "kind",
\* a key TaskObject does not declare
FullTask(id, sd, tz, pr) ==
    LET full == [id |-> Some(id), projectId |-> Some("P1"), title |-> Some("T"),
                 content |-> Some("C1"), startDate |-> sd,
                 dueDate |-> Some(Wire("D1", "Europe/Paris")),
                 timeZone |-> tz, priority |-> pr, status |-> Some(0),
                 tags |-> Some(<<"old">>), kind |-> Some("TEXT")]
    IN  MkRequest(full)

FullTasks(id) ==
    {FullTask(id, sd, tz, pr) :
        sd \in {Omitted, Some(Wire("D1", "Europe/Paris"))},
        tz \in {Omitted, Some("Europe/Paris")},
        pr \in {Some(0), Some(5)}}

UpdateAnswers(id) ==
    {None, DictObj(EmptyDict), NotADict, DictObj(MkDict(id, Null, Null))}
        \cup {DictObj(d) : d \in FullTasks(id)}
        \cup {Raised(e) : e \in Faults}

(***************************************************************************)
(* ticktick_update_task                                                    *)
(***************************************************************************)
update_task ==
    /\ op = "none"
    /\ \E req \in Requests, outcome \in Outcomes :
       \E task_obj \in UpdateAnswers(req["id"][1]) :
        LET task_object == TaskObject(req)
            task_id == task_object["id"][1]
            updates == model_dump(task_object)
            merged == DictUpdate(task_obj.d, updates)
        IN  /\ op' = "update_task"
            /\ args' = [task_object |-> req]
            /\ lookups' = <<[id |-> task_id, res |-> task_obj]>>
            /\ IF IsFault(task_obj)
               THEN /\ calls' = <<>>
                    /\ locals' = <<>>
                    /\ result' = FailedResponse(task_obj.tag)
               ELSE IF ~Truthy(task_obj) \/ ~IsDict(task_obj)
               THEN /\ calls' = <<>>
                    /\ locals' = <<>>
                    /\ result' = NotFoundResponse
               ELSE /\ calls' = Issue([name |-> "update",
                                         arg |-> [shape |-> "scalar", recs |-> <<merged>>],
                                         outcome |-> outcome,
                                         at |-> 1])
                    /\ locals' = [task_object |-> AfterSerialize(task_object),
                                  updates |-> updates]
                    /\ result' = IF outcome \in Faults
                                 THEN FailedResponse(outcome)
                                 ELSE ValueResponse("updated_task")

(***************************************************************************)
(* ticktick_create_task                                                    *)
(***************************************************************************)
\* the strings a caller passes as startDate or dueDate: none, the empty
\* string, two ISO 8601 strings and one that is not ISO 8601
DateStrings ==
    {Null, Some(""), Some("2024-07-26"), Some("2024-07-27T09:00:00+09:00"),
     Some("next friday")}

IsoStrings == {"2024-07-26", "2024-07-27T09:00:00+09:00"}

FromIsoNeverRaises(s) == FALSE

\* datetime.datetime.fromisoformat(s) raises ValueError
FromIsoRaises(s) == s \notin IsoStrings

\* the datetime fromisoformat returns for an ISO 8601 string
fromisoformat(s) ==
    IF s = "2024-07-26" THEN "D2"
    ELSE IF s = "2024-07-27T09:00:00+09:00" THEN "D3"
    ELSE "D0"

\* "fromisoformat(x) if x else None" is evaluated: x is a non-empty string
IsParsed(x) == TruthyStr(x)

\* datetime.datetime.fromisoformat(x) if x else None
ParseOrNone(x) == IF IsParsed(x) THEN Some(fromisoformat(x[1])) ELSE Null

CreateArgs ==
    {[title |-> Some("T"), projectId |-> pj, startDate |-> sd, dueDate |-> dd,
      timeZone |-> tz, priority |-> pr] :
        pj \in {Null, Some("P1")}, sd \in DateStrings, dd \in DateStrings,
        tz \in {Null, Some("Asia/Seoul")}, pr \in {Null, Some(2), Some(5)}}

\* the keyword arguments handed to client.task.builder, whose result is
\* handed to client.task.create unchanged
BuilderArgs(a, start_dt, due_dt) ==
    [title |-> a.title, projectId |-> a.projectId, startDate |-> start_dt,
     dueDate |-> due_dt, timeZone |-> a.timeZone, priority |-> a.priority]

ticktick_create_task ==
    /\ op = "none"
    /\ \E a \in CreateArgs, built \in Outcomes, outcome \in Outcomes :
        LET bad_start == IsParsed(a.startDate) /\ FromIsoRaises(a.startDate[1])
            bad_due == IsParsed(a.dueDate) /\ FromIsoRaises(a.dueDate[1])
            start_dt == ParseOrNone(a.startDate)
            due_dt == ParseOrNone(a.dueDate)
            task_dict == BuilderArgs(a, start_dt, due_dt)
        IN  /\ op' = "ticktick_create_task"
            /\ args' = a
            /\ lookups' = <<>>
            /\ IF bad_start \/ bad_due
               THEN /\ calls' = <<>>
                    /\ locals' = [parsed |-> IF bad_start THEN <<>> ELSE <<"startDate">>]
                    /\ result' = [error |-> "Invalid date format for startDate or dueDate"]
               ELSE IF built \in Faults
               THEN /\ calls' = <<>>
                    /\ locals' = [parsed |-> <<"startDate", "dueDate">>]
                    /\ result' = FailedResponse(built)
               ELSE /\ calls' = Issue([name |-> "create",
                                         arg |-> [shape |-> "scalar", recs |-> <<task_dict>>],
                                         outcome |-> outcome,
                                         at |-> 0])
                    /\ locals' = [parsed |-> <<"startDate", "dueDate">>]
                    /\ result' = IF outcome \in Faults
                                 THEN FailedResponse(outcome)
                                 ELSE ValueResponse("created_task")

(***************************************************************************)
(* ticktick_complete_task                                                  *)
(***************************************************************************)
\* a task as get_by_id answers after the completion: its status may be
\* missing, 0 (incomplete) or 2 (completed)
TaskWithStatus(id, st) ==
    [k \in {"id", "projectId", "title"} \cup (IF st = Null THEN {} ELSE {"status"}) |->
        CASE k = "id" -> Some(id)
          [] k = "projectId" -> Some("P1")
          [] k = "title" -> Some("T")
          [] k = "status" -> st]

RefetchAnswers(id) ==
    {None} \cup {DictObj(TaskWithStatus(id, st)) : st \in {Null, Some(0), Some(2)}}
           \cup {Raised(e) : e \in Faults}

\* client.task.complete returns a value, returns an empty value, or raises
CompleteOutcomes == Outcomes \cup {"empty"}

\* updated_task_obj.get('status', 0) != 0
StatusChanged(obj) == "status" \in DOMAIN obj.d /\ obj.d["status"] # Some(0)

ticktick_complete_task ==
    /\ op = "none"
    /\ \E task_id \in Ids, outcome \in CompleteOutcomes :
       \E task_obj \in Answers(task_id), updated_task_obj \in RefetchAnswers(task_id) :
        LET first == <<[id |-> task_id, res |-> task_obj]>>
            call == [name |-> "complete",
                     arg |-> [shape |-> "scalar", recs |-> <<task_obj.d>>],
                     outcome |-> outcome,
                     at |-> 1]
        IN  /\ op' = "ticktick_complete_task"
            /\ args' = [task_id |-> task_id]
            /\ locals' = <<>>
            /\ IF IsFault(task_obj)
               THEN /\ lookups' = first
                    /\ calls' = <<>>
                    /\ result' = FailedResponse(task_obj.tag)
               ELSE IF NotFoundOrInvalid(task_obj)
               THEN /\ lookups' = first
                    /\ calls' = <<>>
                    /\ result' = NotFoundResponse
               ELSE IF outcome \in Faults
               THEN /\ lookups' = first
                    /\ calls' = Issue(call)
                    /\ result' = FailedResponse(outcome)
               ELSE /\ lookups' = Append(first, [id |-> task_id, res |-> updated_task_obj])
                    /\ calls' = Issue(call)
                    /\ result' =
                          IF IsFault(updated_task_obj)
                          THEN FailedResponse(updated_task_obj.tag)
                          ELSE IF Truthy(updated_task_obj) /\ IsDict(updated_task_obj)
                                  /\ StatusChanged(updated_task_obj)
                          THEN ValueResponse(updated_task_obj)
                          ELSE IF outcome # "empty"
                          THEN ValueResponse("completed_task_result")
                          ELSE [warning |-> "Completion API call succeeded but task status verification failed.",
                                task_id |-> task_id]

(***************************************************************************)
(* ticktick_get_by_id, ticktick_get_tasks_from_project, ticktick_get_all   *)
(***************************************************************************)
ticktick_get_by_id ==
    /\ op = "none"
    /\ \E obj_id \in Ids : \E obj \in Answers(obj_id) :
        /\ op' = "ticktick_get_by_id"
        /\ args' = [obj_id |-> obj_id]
        /\ lookups' = <<[id |-> obj_id, res |-> obj]>>
        /\ calls' = <<>>
        /\ locals' = <<>>
        /\ result' = IF IsFault(obj) THEN FailedResponse(obj.tag)
                     ELSE ValueResponse(obj)

\* what client.task.get_from_project returns: None, one dict, a list; or
\* it raises
ProjectTasksAnswers(pid) ==
    {[tag |-> "None", items |-> <<>>],
     [tag |-> "dict", items |-> <<MkDict("A", Some(pid), Some("T"))>>],
     [tag |-> "list", items |-> <<>>],
     [tag |-> "list", items |-> <<MkDict("A", Some(pid), Some("T")),
                                  MkDict("B", Some(pid), Some("T"))>>]}
        \cup {[tag |-> e, items |-> <<>>] : e \in Faults}

\* tasks = [] if tasks is None, [tasks] if it is a dict
AsList(tasks) == tasks.items

ticktick_get_tasks_from_project ==
    /\ op = "none"
    /\ \E project_id \in ProjectIds : \E tasks \in ProjectTasksAnswers(project_id) :
        /\ op' = "ticktick_get_tasks_from_project"
        /\ args' = [project_id |-> project_id]
        /\ lookups' = <<>>
        /\ calls' = <<>>
        /\ locals' = <<>>
        /\ result' = IF tasks.tag \in Faults THEN FailedResponse(tasks.tag)
                     ELSE ValueResponse(AsList(tasks))

Searches == {"tasks", "Tasks", "projects", "tags", "habits"}

\* search.lower()
Lower(search) == IF search = "Tasks" THEN "tasks" ELSE search

\* what a handler returns when it ends without a return statement
ReturnsNothing == [nothing |-> TRUE]

\* the value ticktick_get_all returns once client.sync() has returned;
\* read stands for the read of the tasks, of client.state['projects'] or of
\* client.state['tags'], which returns or raises
GetAllResult(search, read) ==
    LET search_lower == Lower(search)
    IN  IF search_lower = "tasks"
        THEN IF read \in Faults THEN FailedResponse(read) ELSE ReturnsNothing
        ELSE IF search_lower = "projects"
        THEN IF read \in Faults THEN FailedResponse(read)
             ELSE ValueResponse("projects")
        ELSE IF search_lower = "tags"
        THEN IF read \in Faults THEN FailedResponse(read)
             ELSE ValueResponse("tags")
        ELSE [error |-> "Invalid search type"]

ticktick_get_all ==
    /\ op = "none"
    /\ \E search \in Searches, client \in BOOLEAN, sync \in Outcomes, read \in Outcomes :
        /\ op' = "ticktick_get_all"
        /\ args' = [search |-> search]
        /\ lookups' = <<>>
        /\ calls' = <<>>
        /\ locals' = [client |-> client, sync |-> sync, read |-> read]
        /\ result' = IF ~client THEN FailedResponse("ToolLogicError")
                     ELSE IF sync \in Faults THEN FailedResponse(sync)
                     ELSE GetAllResult(search, read)

(***************************************************************************)
(* TaskObject.update, applied to two validated records                     *)
(***************************************************************************)
\* the records merged into: what a fetched task validates to
BaseObjects ==
    {TaskObject([f \in DOMAIN d \cap FieldSet |->
                    IF f \in DateFields THEN Some(d[f][1].date) ELSE d[f]]) :
        d \in FullTasks("A")}

\* the records merged from
PartialObjects == {TaskObject(r) : r \in Requests}

TaskObject_update ==
    /\ op = "none"
    /\ \E self \in BaseObjects, src \in PartialObjects :
        /\ op' = "TaskObject.update"
        /\ args' = [self |-> self, src |-> src]
        /\ lookups' = <<>>
        /\ calls' = <<>>
        /\ locals' = <<>>
        /\ result' = update(self, src)

(***************************************************************************)
(* Serializing one TaskObject, and serializing it again                    *)
(***************************************************************************)
TaskObject_model_dump ==
    /\ op = "none"
    /\ \E self \in PartialObjects :
        /\ op' = "TaskObject.model_dump"
        /\ args' = [self |-> self]
        /\ lookups' = <<>>
        /\ calls' = <<>>
        /\ locals' = [task_object |-> AfterSerialize(self),
                      zones |-> <<AfterSerialize(self)["timeZone"]>>,
                      wires |-> <<model_dump(self)>>]
        /\ result' = model_dump(self)

TaskObject_model_dump_again ==
    /\ op = "TaskObject.model_dump"
    /\ Len(locals.wires) < MaxDumps
    /\ LET self == locals.task_object
       IN  /\ locals' = [task_object |-> AfterSerialize(self),
                         zones |-> Append(locals.zones, AfterSerialize(self)["timeZone"]),
                         wires |-> Append(locals.wires, model_dump(self))]
           /\ result' = model_dump(self)
    /\ UNCHANGED <<op, args, lookups, calls>>

Init ==
    /\ op = "none"
    /\ args = <<>>
    /\ lookups = <<>>
    /\ calls = <<>>
    /\ locals = <<>>
    /\ result = <<>>

Next ==
    \/ ticktick_delete_tasks
    \/ ticktick_move_task
    \/ ticktick_make_subtask
    \/ update_task
    \/ TaskObject_update
    \/ ticktick_create_task
    \/ ticktick_complete_task
    \/ ticktick_get_by_id
    \/ ticktick_get_tasks_from_project
    \/ ticktick_get_all
    \/ TaskObject_model_dump
    \/ TaskObject_model_dump_again

Spec == Init /\ [][Next]_vars

(***************************************************************************)
(* Properties                                                              *)
(***************************************************************************)
\* the record handed to the one mutating call, and the record fetched
Sent == calls[1].arg.recs[1]

Fetched == lookups[1].res.d

UpdateIssued == op = "update_task" /\ calls # <<>>

Deleting == op = "ticktick_delete_tasks"

\* Section 4.3: an answer is a task iff it carries a non-null projectId and
\* a non-null title; Absent is a lookup that returned nothing
ResolvesToTask(res) ==
    /\ res.tag = "dict"
    /\ Get(res.d, "projectId") # Null
    /\ Get(res.d, "title") # Null

IsAbsent(res) == res.tag = "None"

FoundNonTask(res) == ~IsFault(res) /\ ~ResolvesToTask(res) /\ ~IsAbsent(res)

IdsOf(s) == [i \in 1..Len(s) |-> s[i].id]

RecordsOf(s) == [i \in 1..Len(s) |-> s[i].res.d]

ResolvedLookups == SelectSeq(lookups, LAMBDA l : ResolvesToTask(l.res))

AbsentLookups == SelectSeq(lookups, LAMBDA l : IsAbsent(l.res))

NonTaskLookups == SelectSeq(lookups, LAMBDA l : FoundNonTask(l.res))

\* every input id was looked up and every lookup returned
AllLookedUp ==
    /\ IdsOf(lookups) = args.ids
    /\ \A i \in 1..Len(lookups) : ~IsFault(lookups[i].res)

Has(r, k) == k \in DOMAIN r

\* C1: in update_task every field the caller did not supply reaches the
\* remote update call with the value it had in the record just fetched.
C1_UnsuppliedFieldsKeepFetched ==
    UpdateIssued =>
        \A f \in DOMAIN Sent \cup DOMAIN Fetched :
            f \notin DOMAIN args.task_object => Get(Sent, f) = Get(Fetched, f)

\* the JSON value of a field of a validated record
JsonOf(obj, f) ==
    IF f \in DateFields THEN Some(Wire(obj[f][1], obj["timeZone"][1])) ELSE obj[f]

C3_MergeIdempotent ==
    /\ op = "TaskObject.update" => update(result, args.src) = result
    /\ UpdateIssued =>
          DictUpdate(Sent, model_dump(locals.task_object)) = Sent

C3_Witness ==
    /\ op = "TaskObject.update"
    /\ result # args.self
    /\ result # args.src
    /\ args.self["tags"] = Some(<<"old">>)
    /\ result["tags"] = Some(<<"new">>)

\* C4: the success envelope of ticktick_delete_tasks lists exactly the input
\* ids that resolved to tasks, in input order and with duplicates kept, and
\* deleted_count is the length of that list; the envelope is the success
\* envelope whenever some id resolved and the remote calls returned.
C4_DeletedIdsAreResolvedIds ==
    Deleting =>
        /\ Has(result, "tasks_deleted_ids") =>
              /\ result.tasks_deleted_ids = IdsOf(ResolvedLookups)
              /\ result.deleted_count = Len(ResolvedLookups)
        /\ (AllLookedUp /\ ResolvedLookups # <<>> /\ calls # <<>>
              /\ calls[1].outcome = "ok")
              => Has(result, "tasks_deleted_ids")

C4_Witness ==
    /\ Deleting
    /\ args.ids = <<"A", "B", "A">>
    /\ Has(result, "tasks_deleted_ids")
    /\ result.tasks_deleted_ids = <<"A", "A">>
    /\ result.deleted_count = 2
    /\ locals.missing_ids = <<"B">>

NoneResolved == Deleting /\ AllLookedUp /\ ResolvedLookups = <<>>

\* C5 as stated: whenever no input id resolves to a valid task, the empty
\* input list included, no remote delete is issued and the result has status
\* not_found or error and carries the missing and the invalid id list.
C5_NoneResolvedCarriesLists ==
    NoneResolved =>
        /\ calls = <<>>
        /\ Has(result, "status") /\ result.status \in {"not_found", "error"}
        /\ Has(result, "missing_ids")
        /\ Has(result, "invalid_ids")

\* C5 as amended: whenever every lookup returns and no input id resolves to
\* a valid task, no remote delete is issued; for a non-empty input the
\* result has status not_found and carries the missing and the invalid id
\* list, for the empty input list it has status error and carries neither.
C5_NoneResolvedReport ==
    NoneResolved =>
        /\ calls = <<>>
        /\ Has(result, "status")
        /\ IF args.ids = <<>>
           THEN /\ result.status = "error"
                /\ ~Has(result, "missing_ids")
                /\ ~Has(result, "invalid_ids")
           ELSE /\ result.status = "not_found"
                /\ Has(result, "missing_ids")
                /\ Has(result, "invalid_ids")
                /\ result.missing_ids = IdsOf(AbsentLookups)
                /\ result.invalid_ids = IdsOf(NonTaskLookups)

C5_Witness ==
    /\ NoneResolved
    /\ args.ids = <<"A", "B">>
    /\ result.status = "not_found"
    /\ result.missing_ids = <<"A">>
    /\ result.invalid_ids = <<"B">>

\* C6: when some id resolves to a valid task (and every lookup returned) the
\* remote delete is issued, and whenever it is issued its argument holds
\* exactly the records that resolved as tasks, none of a missing or invalid
\* id.
C6_DeleteArgumentIsValidSet ==
    Deleting =>
        /\ (AllLookedUp /\ ResolvedLookups # <<>>) => calls # <<>>
        /\ calls # <<>> =>
              /\ Len(calls) = 1
              /\ calls[1].name = "delete"
              /\ calls[1].arg.recs = RecordsOf(ResolvedLookups)

C6_Witness ==
    /\ Deleting
    /\ Len(args.ids) = 3
    /\ calls # <<>>
    /\ Len(calls[1].arg.recs) = 1
    /\ Len(AbsentLookups) = 1
    /\ Len(NonTaskLookups) = 1
    /\ \E i \in 1..3 : lookups[i].res.tag = "dict"
                       /\ Get(lookups[i].res.d, "projectId") # Null
                       /\ Get(lookups[i].res.d, "title") = Null

\* C7: the remote delete call keeps the shape of the caller's argument: a
\* str gives a single record, a list (a one-element list too) gives a list.
C7_DeleteShapePreserved ==
    (Deleting /\ calls # <<>>) =>
        calls[1].arg.shape = IF args.isList THEN "list" ELSE "scalar"

C7_Witness ==
    /\ Deleting
    /\ calls # <<>>
    /\ args.isList
    /\ Len(args.ids) = 1
    /\ calls[1].arg.shape = "list"
    /\ Len(calls[1].arg.recs) = 1

\* C8: every looked-up id lands in exactly one of valid, missing, invalid:
\* valid iff the object carries a non-null projectId and a non-null title,
\* missing iff the lookup returned nothing, invalid otherwise; the three
\* lists together have one entry per lookup that returned, hence one per
\* input id when every lookup returned.
C8_ThreeWayPartition ==
    Deleting =>
        /\ locals.tasks_to_delete = RecordsOf(ResolvedLookups)
        /\ locals.missing_ids = IdsOf(AbsentLookups)
        /\ locals.invalid_ids = IdsOf(NonTaskLookups)
        /\ Len(locals.tasks_to_delete) + Len(locals.missing_ids)
              + Len(locals.invalid_ids)
              = Cardinality({i \in 1..Len(lookups) : ~IsFault(lookups[i].res)})
        /\ AllLookedUp =>
              Len(locals.tasks_to_delete) + Len(locals.missing_ids)
                 + Len(locals.invalid_ids) = Len(args.ids)

C8_Witness ==
    /\ Deleting
    /\ AllLookedUp
    /\ Len(locals.tasks_to_delete) = 1
    /\ Len(locals.missing_ids) = 1
    /\ Len(locals.invalid_ids) = 1
    /\ \E i \in 1..3 : lookups[i].res = DictObj(EmptyDict)

\* C9: no relational operation (delete, make_subtask, move) issues its
\* mutating remote call with a record whose projectId or title is null.
C9_RelationalRecordsAreTasks ==
    \A i \in 1..Len(calls) :
        calls[i].name \in {"delete", "move", "make_subtask"} =>
            \A j \in 1..Len(calls[i].arg.recs) :
                /\ Get(calls[i].arg.recs[j], "projectId") # Null
                /\ Get(calls[i].arg.recs[j], "title") # Null

\* C10: ticktick_make_subtask with child_task_id equal to parent_task_id
\* returns an error and issues no remote call.
C10_SelfReferenceRejected ==
    (op = "ticktick_make_subtask" /\ args.child_task_id = args.parent_task_id) =>
        /\ Has(result, "error")
        /\ calls = <<>>
        /\ lookups = <<>>

C10_Witness ==
    /\ op = "ticktick_make_subtask"
    /\ args.child_task_id = "A"
    /\ args.parent_task_id = "A"
    /\ result = [error |-> "Child and parent task IDs cannot be the same."]

Linking == op = "ticktick_make_subtask"

\* both lookups of ticktick_make_subtask returned a dict that carries a
\* projectId: the child is lookups[1], the parent lookups[2]
BothResolved ==
    /\ Linking
    /\ Len(lookups) >= 2
    /\ \A i \in 1..2 : /\ lookups[i].res.tag = "dict"
                       /\ Get(lookups[i].res.d, "projectId") # Null

CrossContainer ==
    /\ BothResolved
    /\ Get(lookups[1].res.d, "projectId") # Get(lookups[2].res.d, "projectId")

\* C11: ticktick_make_subtask on two resolved tasks whose projectId differs
\* returns an error and never invokes make_subtask.
C11_CrossContainerRejected ==
    CrossContainer =>
        /\ Has(result, "error")
        /\ calls = <<>>
        /\ Len(lookups) = 2

C11_Witness ==
    /\ CrossContainer
    /\ Get(lookups[1].res.d, "projectId") = Some("P1")
    /\ Get(lookups[2].res.d, "projectId") = Some("P2")
    /\ Get(lookups[1].res.d, "title") = Some("T")
    /\ Get(lookups[2].res.d, "title") = Some("T")
    /\ Has(result, "error")

\* the two relationship checks of ticktick_make_subtask that failed
SelfReferenceFailed ==
    /\ Linking
    /\ IsStr(args.child_task_id)
    /\ args.child_task_id = args.parent_task_id

\* the envelope carries x beside its message
Mentions(r, x) == \E k \in DOMAIN r \ {"error"} : r[k] = Some(x)

\* C12 as stated: whenever a relationship check of ticktick_make_subtask
\* fails, the error names both offending items: both task identities for
\* the self-reference check, both containers for the same-container check.
C12_ErrorNamesBoth ==
    /\ SelfReferenceFailed =>
          /\ Mentions(result, args.child_task_id)
          /\ Mentions(result, args.parent_task_id)
    /\ CrossContainer =>
          /\ Has(result, "child_project")
          /\ Has(result, "parent_project")

\* C12 as amended: when the same-container check fails the error carries
\* both containers, child_project and parent_project, each the projectId of
\* its task; when the self-reference check fails the error carries its
\* message only and names neither identity.
C12_ErrorNamesContainers ==
    /\ SelfReferenceFailed => DOMAIN result = {"error"}
    /\ CrossContainer =>
          /\ Has(result, "child_project")
          /\ Has(result, "parent_project")
          /\ result.child_project = Get(lookups[1].res.d, "projectId")
          /\ result.parent_project = Get(lookups[2].res.d, "projectId")

C12_Witness ==
    /\ CrossContainer
    /\ Has(result, "child_project")
    /\ Has(result, "parent_project")
    /\ result.child_project = Some("P2")
    /\ result.parent_project = Some("P1")

PublicOps ==
    {"ticktick_create_task", "update_task", "ticktick_delete_tasks",
     "ticktick_complete_task", "ticktick_move_task", "ticktick_make_subtask",
     "ticktick_get_by_id", "ticktick_get_all", "ticktick_get_tasks_from_project"}

\* an error envelope carries a message; a success envelope carries the
\* domain result: a remote value, a batch or link report, or a warning
IsErrorEnvelope(r) == Has(r, "error") \/ (Has(r, "message") /\ Has(r, "status")
                                            /\ r.status \in {"error", "not_found"})

IsSuccessEnvelope(r) ==
    \/ Has(r, "value")
    \/ Has(r, "warning")
    \/ Has(r, "status") /\ r.status = "success"

\* C13: every public operation, for every input and every outcome of the
\* remote calls, returns exactly one envelope, a success envelope or an
\* error envelope; it never returns nothing.
C13_AlwaysOneEnvelope ==
    op \in PublicOps =>
        /\ IsErrorEnvelope(result) \/ IsSuccessEnvelope(result)
        /\ ~(IsErrorEnvelope(result) /\ IsSuccessEnvelope(result))

MissingText == "Could not find objects for IDs"

InvalidText == "Found objects for IDs but they were not valid tasks"

\* C14: when some id resolves to a valid task (and the remote calls return)
\* the result of ticktick_delete_tasks has status success; a success result
\* carries warnings iff some input id was missing or invalid, and the
\* warnings report the missing ids and the invalid ids as two separate
\* lists, each id under its own classification.
C14_WarningsIffUnusable ==
    Deleting =>
        /\ (AllLookedUp /\ ResolvedLookups # <<>> /\ calls # <<>>
              /\ calls[1].outcome = "ok")
              => (Has(result, "status") /\ result.status = "success")
        /\ (Has(result, "status") /\ result.status = "success") =>
              /\ Has(result, "warnings")
                    <=> (AbsentLookups # <<>> \/ NonTaskLookups # <<>>)
              /\ Has(result, "warnings") =>
                    /\ \A i \in 1..Len(result.warnings) :
                          \/ /\ result.warnings[i].text = MissingText
                             /\ result.warnings[i].ids = IdsOf(AbsentLookups)
                          \/ /\ result.warnings[i].text = InvalidText
                             /\ result.warnings[i].ids = IdsOf(NonTaskLookups)
                    /\ AbsentLookups # <<>> <=>
                          \E i \in 1..Len(result.warnings) :
                              result.warnings[i].text = MissingText
                    /\ NonTaskLookups # <<>> <=>
                          \E i \in 1..Len(result.warnings) :
                              result.warnings[i].text = InvalidText

C14_Witness ==
    /\ Deleting
    /\ args.ids = <<"A", "B", "C">>
    /\ Has(result, "status") /\ result.status = "success"
    /\ result.tasks_deleted_ids = <<"B">>
    /\ Has(result, "warnings")
    /\ result.warnings = <<[text |-> MissingText, ids |-> <<"C">>],
                           [text |-> InvalidText, ids |-> <<"A">>]>>

AllowedPriorities == {0, 1, 3, 5}

\* C15: a priority that is present and outside {0,1,3,5} never reaches the
\* remote create or update call.
C15_PriorityValidated ==
    \A i \in 1..Len(calls) :
        calls[i].name \in {"create", "update"} =>
            LET priority == Get(calls[i].arg.recs[1], "priority")
            IN  priority = Null \/ priority[1] \in AllowedPriorities

\* the lookups a handler makes before its mutating call
GatingLookups ==
    CASE op = "ticktick_delete_tasks" -> Len(args.ids)
      [] op \in {"ticktick_move_task", "ticktick_make_subtask"} -> 2
      [] op \in {"update_task", "ticktick_complete_task"} -> 1
      [] OTHER -> 0

\* C16: every public operation issues at most one mutating remote call; the
\* lookups that gate the call have all returned before it and the record it
\* acts on is one of them; a call that fails is reported once, as an error,
\* with no retry and no further remote call.
C16_AtMostOneMutation ==
    op \in PublicOps =>
        /\ Len(calls) <= 1
        /\ calls # <<>> =>
              /\ calls[1].at = GatingLookups
              /\ Len(lookups) >= calls[1].at
              /\ \A i \in 1..calls[1].at : ~IsFault(lookups[i].res)
              /\ calls[1].name \in {"delete", "move", "make_subtask", "complete"} =>
                    \A j \in 1..Len(calls[1].arg.recs) :
                        \E i \in 1..calls[1].at :
                            lookups[i].res.d = calls[1].arg.recs[j]
              /\ calls[1].outcome \in Faults =>
                    /\ Has(result, "error")
                    /\ Len(lookups) = calls[1].at

C16_Witness ==
    /\ op = "ticktick_complete_task"
    /\ Len(calls) = 1
    /\ calls[1].outcome = "ok"
    /\ calls[1].at = 1
    /\ Len(lookups) = 2

Serializing == op = "TaskObject.model_dump"

HasDate(obj) == obj["startDate"] # Null \/ obj["dueDate"] # Null

\* C17: serializing a record with startDate or dueDate set and timeZone
\* unset assigns the local zone to its timeZone; after the first
\* serialization timeZone never changes, a timeZone the caller set is never
\* overwritten, and every serialization yields the same wire value.
C17_SerializationStable ==
    Serializing =>
        /\ (HasDate(args.self) /\ args.self["timeZone"] = Null)
              => locals.zones[1] = Some(LocalZone)
        /\ args.self["timeZone"] # Null
              => locals.zones[1] = args.self["timeZone"]
        /\ \A i \in 1..Len(locals.zones) : locals.zones[i] = locals.zones[1]
        /\ \A i \in 1..Len(locals.wires) : locals.wires[i] = locals.wires[1]
        /\ locals.task_object["timeZone"] = locals.zones[1]
        /\ \A f \in DateFields :
              args.self[f] # Null =>
                  Get(locals.wires[1], f)
                      = Some(Wire(args.self[f][1], locals.zones[1][1]))

C17_Witness ==
    /\ Serializing
    /\ Len(locals.wires) = MaxDumps
    /\ args.self["startDate"] = Some("D2")
    /\ args.self["timeZone"] = Null
    /\ locals.task_object["timeZone"] = Some(LocalZone)
    /\ Get(result, "startDate") = Some(Wire("D2", LocalZone))
    /\ Get(result, "timeZone") = Some(LocalZone)

\* C18: ticktick_move_task on a task id whose lookup returns nothing, or an
\* object without projectId, returns the not_found envelope and never
\* issues the remote move call.
C18_MoveNotFound ==
    (op = "ticktick_move_task"
       /\ (IsAbsent(lookups[1].res)
             \/ (lookups[1].res.tag = "dict"
                   /\ Get(lookups[1].res.d, "projectId") = Null))) =>
        /\ Has(result, "status") /\ result.status = "not_found"
        /\ calls = <<>>

Creating == op = "ticktick_create_task"

\* a date string that was supplied and is not ISO 8601 (the empty string
\* counts as no date: the handler does not parse it)
Unparseable(x) == x # Null /\ x[1] # "" /\ x[1] \notin IsoStrings

MutatingOps ==
    {"update_task", "ticktick_delete_tasks", "ticktick_complete_task",
     "ticktick_move_task", "ticktick_make_subtask"}

\* C20: a mutating operation that returns an error envelope either never
\* issued its mutating remote call or that call itself failed.
C20_ErrorMeansNoMutation ==
    (op \in MutatingOps /\ IsErrorEnvelope(result)) =>
        \/ calls = <<>>
        \/ calls[1].outcome \in Faults

====
